---- MODULE Spec2Model ----
(***************************************************************************)
(* Exact Riemann solver for the Sod shock tube (class SodShockTube) and    *)
(* its callers, as a state machine.                                        *)
(*                                                                         *)
(* Numbers.  The program works on IEEE doubles; here a real v is the       *)
(* integer floor(v * Scale) (fixed point, seven decimals), and the one     *)
(* non-finite value the modelled inputs produce, NaN, is a sentinel that   *)
(* every arithmetic operator propagates and every comparison answers       *)
(* FALSE on, as IEEE does.  Products and quotients are computed limb by    *)
(* limb so that no intermediate result leaves the 32-bit integers.  gamma  *)
(* is kept as an exact rational n/d so that the exponents                  *)
(* (gamma-1)/(2 gamma), 1/gamma, 2/(gamma-1) and 2 gamma/(gamma-1) are     *)
(* exact rationals a/b, and x^(a/b) is computed as (b-th root of x)^a.     *)
(*                                                                         *)
(* Objects.  numpy arrays live in a heap (array id -> contents); a local   *)
(* variable that names an array holds its id, so that aliasing and         *)
(* in-place writes are visible.  Every call of shock_tube_solution has its *)
(* own frame of local variables.                                           *)
(***************************************************************************)
EXTENDS Integers, Sequences, FiniteSets, TLC

---------------------------------------------------------------------------
(* Fixed-point arithmetic with NaN                                         *)

Scale == 10^7

\* Products are formed from halves of the operands below Limb.
Limb == 10^4

NaN == 0 - 2147483647

IsNaN(a) == a = NaN

Abs(a) == IF a < 0 THEN 0 - a ELSE a

Add(a, b) == IF IsNaN(a) \/ IsNaN(b) THEN NaN ELSE a + b

Sub(a, b) == IF IsNaN(a) \/ IsNaN(b) THEN NaN ELSE a - b

\* floor(a * b / Scale), from a = ah * Limb + al and b = bh * Limb + bl.
MulFloor(a, b) ==
    LET ah == a \div Limb
        al == a % Limb
        bh == b \div Limb
        bl == b % Limb
    IN  ah * bh * ((Limb * Limb) \div Scale)
            + (ah * bl + al * bh + (al * bl) \div Limb) \div (Scale \div Limb)

Mul(a, b) == IF IsNaN(a) \/ IsNaN(b) THEN NaN ELSE MulFloor(a, b)

RECURSIVE LongDiv(_, _, _)
\* floor(r * w / b) for 0 <= r < b, one decimal digit at a time.
LongDiv(r, b, w) ==
    IF w = 1 THEN 0
    ELSE ((r * 10) \div b) * (w \div 10)
             + LongDiv((r * 10) % b, b, w \div 10)

\* floor(a * Scale / b) for b > 0.
DivFloor(a, b) == (a \div b) * Scale + LongDiv(a % b, b, Scale)

\* a / b.  A zero divisor gives a non-finite double (inf or nan, with a
\* RuntimeWarning); all of them are folded into NaN.
Div(a, b) ==
    IF IsNaN(a) \/ IsNaN(b) \/ b = 0 THEN NaN
    ELSE IF b > 0 THEN DivFloor(a, b)
    ELSE DivFloor(0 - a, 0 - b)

\* IEEE comparisons: FALSE whenever an operand is NaN.
Lt(a, b) == ~IsNaN(a) /\ ~IsNaN(b) /\ a < b

Gt(a, b) == ~IsNaN(a) /\ ~IsNaN(b) /\ a > b

Ge(a, b) == ~IsNaN(a) /\ ~IsNaN(b) /\ a >= b

Le(a, b) == ~IsNaN(a) /\ ~IsNaN(b) /\ a =< b

RECURSIVE IPow(_, _)
\* r^n for a natural n, by repeated fixed-point multiplication.
IPow(r, n) == IF n = 0 THEN Scale ELSE MulFloor(IPow(r, n - 1), r)

RECURSIVE RootSearch(_, _, _, _)
\* Largest r in lo..hi with r^b <= x (bisection; IPow is monotone in r).
RootSearch(x, b, lo, hi) ==
    IF lo >= hi THEN lo
    ELSE LET mid == (lo + hi + 1) \div 2
         IN  IF IPow(mid, b) =< x THEN RootSearch(x, b, mid, hi)
             ELSE RootSearch(x, b, lo, mid - 1)

RECURSIVE RootNewton(_, _, _)
\* Newton's iteration for the b-th root of x, downwards from r; q is the
\* next iterate and pw is r^(b-1).
RootNext(x, b, r, q) == IF q >= r THEN r ELSE RootNewton(x, b, q)

RootStep(x, b, r, pw) ==
    IF pw = 0 THEN r
    ELSE RootNext(x, b, r, ((b - 1) * r + DivFloor(x, pw)) \div b)

RootNewton(x, b, r) == RootStep(x, b, r, IPow(r, b - 1))

RECURSIVE RootAround(_, _, _, _)
\* The root of x <= Scale by bisection in r - w .. r + w, in a wider
\* interval when the root is not in this one.
RootAround(x, b, r, w) ==
    IF /\ (r =< w \/ IPow(r - w, b) =< x)
       /\ (r + w >= Scale \/ IPow(r + w + 1, b) > x)
    THEN RootSearch(x, b, IF r =< w THEN 0 ELSE r - w,
                    IF r + w >= Scale THEN Scale ELSE r + w)
    ELSE RootAround(x, b, r, 16 * w)

\* The largest r >= 0 with r^b <= x: Newton's iteration gives r to a few
\* units, bisection around it the rest; plain bisection for x above 1.
Root(x, b) ==
    IF x > Scale THEN RootSearch(x, b, 0, x)
    ELSE RootAround(x, b, RootNewton(x, b, Scale), 2)

RECURSIVE ISqrtNewton(_, _)
\* floor(sqrt(a * Scale)) for a > 0 by Newton's iteration, downwards from
\* x; y is the next iterate.
ISqrtNext(a, x, y) == IF y >= x THEN x ELSE ISqrtNewton(a, y)

ISqrtNewton(a, x) == ISqrtNext(a, x, (x + DivFloor(a, x)) \div 2)

\* np.sqrt: nan for a negative argument.  The iteration starts above the
\* root: at a, or at 15 (above the root of every number in range).
Sqrt(a) ==
    IF IsNaN(a) \/ a < 0 THEN NaN
    ELSE IF a = 0 THEN 0
    ELSE ISqrtNewton(a, IF a > 15 * Scale THEN 15 * Scale
                        ELSE IF a > Scale THEN a ELSE Scale)

\* x ** (e.a / e.b): nan for a negative base with a fractional exponent.
Pow(x, e) ==
    IF IsNaN(x) THEN NaN
    ELSE IF e.a = 0 THEN Scale
    ELSE IF x < 0 /\ e.b > 1 THEN NaN
    ELSE LET r == IF e.b > 1 THEN Root(x, e.b) ELSE x
             y == IPow(r, Abs(e.a))
         IN  IF e.a > 0 THEN y ELSE Div(Scale, y)

RECURSIVE Gcd(_, _)
Gcd(m, n) == IF n = 0 THEN m ELSE Gcd(n, m % n)

\* The rational n/d in lowest terms with a positive denominator.
Ratio(n, d) ==
    LET sn == IF d < 0 THEN 0 - n ELSE n
        sd == Abs(d)
        g  == Gcd(Abs(sn), sd)
    IN  [a |-> sn \div g, b |-> sd \div g]

---------------------------------------------------------------------------
(* class SodShockTube                                                      *)

\* Attribute values set by __init__ (the standard Sod test case).
RHO_L == Scale

P_L == Scale

U_L == 0

RHO_R == Scale \div 8

P_R == Scale \div 10

U_R == 0

X_DISCONTINUITY == Scale \div 2

GAMMA_DEFAULT == [n |-> 7, d |-> 5]

\* SodShockTube.__init__(gamma): stores gamma unchecked, hardcodes the rest.
\* module names the file whose class the instance is of: the repository
\* has a second class SodShockTube, in animate_2d.py.
SodShockTube(gamma) ==
    [module |-> "shock_tube_animation_utils",
     gamma |-> gamma,
     rho_L |-> RHO_L, p_L |-> P_L, u_L |-> U_L,
     rho_R |-> RHO_R, p_R |-> P_R, u_R |-> U_R,
     x_discontinuity |-> X_DISCONTINUITY]

\* animate_2d.SodShockTube.__init__(gamma): the same values.
SodShockTube_2d(gamma) == [SodShockTube(gamma) EXCEPT !.module = "animate_2d"]

\* self.gamma as a number, and the expressions built from it.
G(s) == (s.gamma.n * Scale) \div s.gamma.d

Gm1(s) == G(s) - Scale

Gp1(s) == G(s) + Scale

\* (gamma - 1) / (2 * gamma)
ExpHalf(s) == Ratio(s.gamma.n - s.gamma.d, 2 * s.gamma.n)

\* 1 / gamma
ExpInvGamma(s) == Ratio(s.gamma.d, s.gamma.n)

\* 2 / (gamma - 1)
ExpRho(s) == Ratio(2 * s.gamma.d, s.gamma.n - s.gamma.d)

\* 2 * gamma / (gamma - 1)
ExpP(s) == Ratio(2 * s.gamma.n, s.gamma.n - s.gamma.d)

sound_speed(s, p, rho) == Sqrt(Div(Mul(G(s), p), rho))

\* The shock (Rankine-Hugoniot) branch of a wave function.
ShockBranch(s, p, p_side, rho_side) ==
    Mul(Sub(p, p_side),
        Sqrt(Div(Div(Div(2 * Scale, Gp1(s)), rho_side),
                 Add(p, Mul(Div(Gm1(s), Gp1(s)), p_side)))))

\* The rarefaction (isentropic) branch of a wave function.
RarefactionBranch(s, p, p_side, c_side) ==
    Mul(Div(Mul(2 * Scale, c_side), Gm1(s)),
        Sub(Pow(Div(p, p_side), ExpHalf(s)), Scale))

\* if p > p_side: shock branch, else: rarefaction branch.
UsesShockBranch(p, p_side) == Gt(p, p_side)

\* The wave function gone wrong: the left state's test, `p > self.p_L`,
\* on both sides.
WaveFunction_left_test(s, p, p_side, rho_side) ==
    IF UsesShockBranch(p, s.p_L)
    THEN ShockBranch(s, p, p_side, rho_side)
    ELSE RarefactionBranch(s, p, p_side, sound_speed(s, p_side, rho_side))

WaveFunction(s, p, p_side, rho_side) ==
    IF UsesShockBranch(p, p_side)
    THEN ShockBranch(s, p, p_side, rho_side)
    ELSE RarefactionBranch(s, p, p_side, sound_speed(s, p_side, rho_side))

\* The equation gone wrong: the size of the residual, without its sign.
equations_abs(s, p) ==
    Abs(Add(Add(WaveFunction(s, p, s.p_L, s.rho_L),
                WaveFunction(s, p, s.p_R, s.rho_R)),
            Sub(s.u_R, s.u_L)))

\* _solve_riemann.equations(p) = f_L + f_R + (u_R - u_L)
equations(s, p) ==
    Add(Add(WaveFunction(s, p, s.p_L, s.rho_L),
            WaveFunction(s, p, s.p_R, s.rho_R)),
        Sub(s.u_R, s.u_L))

---------------------------------------------------------------------------
(* scipy.optimize.fsolve(equations, x0)[0]                                 *)
(*                                                                         *)
(* fsolve is MINPACK's hybrd: a forward-difference derivative at the       *)
(* starting point, then quasi-Newton steps with secant (Broyden) updates,  *)
(* until the step is within tolerance or the evaluation cap maxfev is      *)
(* reached.  It returns its last iterate in both cases; the status ier     *)
(* (1 = converged) is only part of the result with full_output, which the  *)
(* call site does not ask for, and [0] keeps the iterate alone.            *)

\* Cap on function evaluations (scipy's default is 200 * (n + 1)).
MaxFev == 20

\* Forward-difference step and step tolerance, at the model's resolution.
FdStep == Scale \div 10^4

XTol == Scale \div 10^6

IER_CONVERGED == 1

IER_MAXFEV == 2

RECURSIVE FsolveIterate(_, _, _, _, _)
\* The step from p to pn, where the function is fn.
FsolveStep(s, p, f, pn, fn, nfev) ==
    IF ~IsNaN(Sub(pn, p)) /\ Abs(Sub(pn, p)) =< XTol
    THEN [x |-> pn, ier |-> IER_CONVERGED, nfev |-> nfev]
    ELSE FsolveIterate(s, pn, fn, Div(Sub(fn, f), Sub(pn, p)), nfev)

\* The next iterate, and the function evaluated at it.
FsolveTry(s, p, f, pn, nfev) ==
    FsolveStep(s, p, f, pn, equations(s, pn), nfev + 1)

FsolveIterate(s, p, f, J, nfev) ==
    IF f = 0 THEN [x |-> p, ier |-> IER_CONVERGED, nfev |-> nfev]
    ELSE IF nfev >= MaxFev THEN [x |-> p, ier |-> IER_MAXFEV, nfev |-> nfev]
    ELSE FsolveTry(s, p, f, Sub(p, Div(f, J)), nfev)

\* The starting point of the call site: (p_L + p_R) / 2.
InitialGuess(s) == Div(Add(s.p_L, s.p_R), 2 * Scale)

\* After the two evaluations that give the forward-difference derivative.
FsolveStart(s, x0, f0, f1) ==
    FsolveIterate(s, x0, f0, Div(Sub(f1, f0), FdStep), 2)

\* fsolve gone wrong: it gives its starting point back.
fsolve_not_iterating(s, x0) == [x |-> x0, ier |-> IER_CONVERGED, nfev |-> 0]

fsolve(s, x0) ==
    FsolveStart(s, x0, equations(s, x0), equations(s, Add(x0, FdStep)))

\* rho_side * ((p/p_side + (g-1)/(g+1)) / ((g-1)/(g+1) * p/p_side + 1))
RankineHugoniotDensity(s, p, p_side, rho_side) ==
    Mul(rho_side,
        Div(Add(Div(p, p_side), Div(Gm1(s), Gp1(s))),
            Add(Div(Mul(Div(Gm1(s), Gp1(s)), p), p_side), Scale)))

\* rho_side * (p/p_side) ** (1/gamma)
IsentropicDensity(s, p, p_side, rho_side) ==
    Mul(rho_side, Pow(Div(p, p_side), ExpInvGamma(s)))

\* What the call site keeps of fsolve's result.
TakeIterate(r) == r.x

\* The star velocity gone wrong: u_L + f_L for u_L - f_L.
StarState_sign(s, p_star, ier, nfev) ==
    [p_star |-> p_star,
     u_star |->
         Add(s.u_L,
             IF Gt(p_star, s.p_L)
             THEN ShockBranch(s, p_star, s.p_L, s.rho_L)
             ELSE RarefactionBranch(s, p_star, s.p_L,
                                    sound_speed(s, s.p_L, s.rho_L))),
     rho_3 |->
         IF Gt(p_star, s.p_L)
         THEN RankineHugoniotDensity(s, p_star, s.p_L, s.rho_L)
         ELSE IsentropicDensity(s, p_star, s.p_L, s.rho_L),
     rho_4 |-> RankineHugoniotDensity(s, p_star, s.p_R, s.rho_R),
     ier |-> ier,
     nfev |-> nfev]

\* The rest of _solve_riemann, from the iterate p_star that fsolve gave.
\* ier and nfev are not values of the program: they record what fsolve's
\* discarded status was.
StarState(s, p_star, ier, nfev) ==
    [p_star |-> p_star,
     u_star |->
         Sub(s.u_L,
             IF Gt(p_star, s.p_L)
             THEN ShockBranch(s, p_star, s.p_L, s.rho_L)
             ELSE RarefactionBranch(s, p_star, s.p_L,
                                    sound_speed(s, s.p_L, s.rho_L))),
     rho_3 |->
         IF Gt(p_star, s.p_L)
         THEN RankineHugoniotDensity(s, p_star, s.p_L, s.rho_L)
         ELSE IsentropicDensity(s, p_star, s.p_L, s.rho_L),
     rho_4 |-> RankineHugoniotDensity(s, p_star, s.p_R, s.rho_R),
     ier |-> ier,
     nfev |-> nfev]

\* The rest of animate_2d's _solve_riemann: u_star and rho_3 by the
\* rarefaction formulas whatever p_star is, rho_4 with p_star / p_R taken
\* first.
StarState_2d(s, p_star, ier, nfev) ==
    [p_star |-> p_star,
     u_star |->
         Sub(s.u_L,
             RarefactionBranch(s, p_star, s.p_L,
                               sound_speed(s, s.p_L, s.rho_L))),
     rho_3 |-> IsentropicDensity(s, p_star, s.p_L, s.rho_L),
     rho_4 |->
         Mul(s.rho_R,
             Div(Add(Div(p_star, s.p_R), Div(Gm1(s), Gp1(s))),
                 Add(Mul(Div(Gm1(s), Gp1(s)), Div(p_star, s.p_R)), Scale))),
     ier |-> ier,
     nfev |-> nfev]

StarStateOf(s, r) ==
    IF s.module = "animate_2d"
    THEN StarState_2d(s, TakeIterate(r), r.ier, r.nfev)
    ELSE StarState(s, TakeIterate(r), r.ier, r.nfev)

\* The four values _solve_riemann returns.
StarOf(r) ==
    [p_star |-> r.p_star, u_star |-> r.u_star,
     rho_3 |-> r.rho_3, rho_4 |-> r.rho_4]

\* SodShockTube._solve_riemann(): (p_star, u_star, rho_3, rho_4).
solve_riemann(s) == StarStateOf(s, fsolve(s, InitialGuess(s)))

\* The wave speeds gone wrong: the tail of the fan taken as u_star + c_3.
WaveSpeeds_tail_sign(s, star) ==
    LET c_L == sound_speed(s, s.p_L, s.rho_L)
        c_R == sound_speed(s, s.p_R, s.rho_R)
        c_3 == sound_speed(s, star.p_star, star.rho_3)
    IN  [shock_speed |->
             Add(s.u_R,
                 Mul(c_R,
                     Sqrt(Add(Mul(Div(Gp1(s), 2 * G(s)),
                                  Div(star.p_star, s.p_R)),
                              Div(Gm1(s), 2 * G(s)))))),
         head_speed    |-> Sub(s.u_L, c_L),
         tail_speed    |-> Add(star.u_star, c_3),
         contact_speed |-> star.u_star]

\* The four wave speeds of shock_tube_solution, from the star state.
WaveSpeeds(s, star) ==
    LET c_L == sound_speed(s, s.p_L, s.rho_L)
        c_R == sound_speed(s, s.p_R, s.rho_R)
        c_3 == sound_speed(s, star.p_star, star.rho_3)
    IN  [shock_speed |->
             Add(s.u_R,
                 Mul(c_R,
                     Sqrt(Add(Mul(Div(Gp1(s), 2 * G(s)),
                                  Div(star.p_star, s.p_R)),
                              Div(Gm1(s), 2 * G(s)))))),
         head_speed    |-> Sub(s.u_L, c_L),
         tail_speed    |-> Sub(star.u_star, c_3),
         contact_speed |-> star.u_star]

---------------------------------------------------------------------------
(* numpy arrays                                                            *)

\* Bounds of the model.
NThreads == 2

MaxLen == 3

Threads == 1 .. NThreads

\* The caller's position array (x_analytic) is the first object of the heap.
X_ANALYTIC == 1

\* A local name that is not bound to an array yet.
UNBOUND == 0

\* Per call: xi, density, velocity, pressure, energy.
ArrIds == 1 .. (X_ANALYTIC + 5 * NThreads)

\* The allocator hands thread i ids of its own arena (any unused id would
\* do; arenas keep the ids independent of how the threads interleave).
Arena(i) == {X_ANALYTIC + 5 * (i - 1) + k : k \in 1 .. 5}

\* hp = [h: heap, a: allocated ids, pool: the arena of the running thread]
NewId(hp) ==
    CHOOSE id \in hp.pool \ hp.a : \A j \in hp.pool \ hp.a : id =< j

\* A new array object holding c.
NewArray(hp, c) ==
    [h |-> [hp.h EXCEPT ![NewId(hp)] = c],
     a |-> hp.a \cup {NewId(hp)},
     pool |-> hp.pool,
     id |-> NewId(hp)]

\* np.zeros_like(x) gone wrong: no new array, the caller's x itself.
zeros_like_aliased(hp, xref) ==
    [h |-> hp.h, a |-> hp.a, pool |-> hp.pool, id |-> xref]

\* np.zeros_like(x): a new array of x's shape.
zeros_like(hp, xref) ==
    NewArray(hp, [k \in 1 .. Len(hp.h[xref]) |-> 0])

\* xi gone wrong: computed in place in the caller's array (x -= ...; x /= t).
xi_in_place(hp, xref, c) ==
    [h |-> [hp.h EXCEPT ![xref] = c], a |-> hp.a, pool |-> hp.pool,
     id |-> xref]

\* xi gone wrong: kept in one scratch buffer that every call shares.
xi_in_shared_buffer(hp, xref, c) ==
    [h |-> [hp.h EXCEPT ![X_ANALYTIC + 5 * NThreads] = c],
     a |-> hp.a \cup {X_ANALYTIC + 5 * NThreads},
     pool |-> hp.pool,
     id |-> X_ANALYTIC + 5 * NThreads]

\* The temporary that holds xi = (x - x_discontinuity) / t, computed from
\* the array xref: a new array.
xi_array(hp, xref, c) == NewArray(hp, c)

\* arr[mask] = vals, in place.
SetMasked(h, id, mask, vals) ==
    [h EXCEPT ![id] =
        [k \in 1 .. Len(@) |->
            IF k =< Len(mask) /\ mask[k] THEN vals[k] ELSE @[k]]]

\* The same scalar for every position.
Broadcast(v, n) == [k \in 1 .. n |-> v]

---------------------------------------------------------------------------
(* SodShockTube.shock_tube_solution(x, t), statement by statement, on      *)
(* st = [h: heap, a: allocated ids, pool: arena, f: the call's frame]      *)

NoStar == [p_star |-> 0, u_star |-> 0, rho_3 |-> 0, rho_4 |-> 0]

NoWaves ==
    [shock_speed |-> 0, head_speed |-> 0, tail_speed |-> 0,
     contact_speed |-> 0]

Regions == 1 .. 5

IdleFrame ==
    [pc |-> "idle", x |-> UNBOUND, t |-> 0,
     nsolve |-> 0, nwaves |-> 0, ier |-> 0, nfev |-> 0,
     star |-> NoStar, w |-> NoWaves,
     xi |-> UNBOUND, mask |-> [r \in Regions |-> <<>>],
     density |-> UNBOUND, velocity |-> UNBOUND, pressure |-> UNBOUND,
     energy |-> UNBOUND]

\* Entry of shock_tube_solution(x, t).
CallFrame(xref, t) == [IdleFrame EXCEPT !.pc = "entry", !.x = xref, !.t = t]

\* The branch gone wrong: if t < 0.
TakesInitialBranch_strict(t) == t < 0

\* if t <= 0:
TakesInitialBranch(t) == t =< 0

\* The comparison gone wrong: x <= self.x_discontinuity.
IsLeftOfDiscontinuity_inclusive(x, x_discontinuity) == Le(x, x_discontinuity)

\* x < self.x_discontinuity
IsLeftOfDiscontinuity(x, x_discontinuity) == Lt(x, x_discontinuity)

\* np.where gone wrong: the positions left of the discontinuity only
\* (x[x < self.x_discontinuity]), so the result is shorter than x.
np_where_compressed(x, x_discontinuity, left, right) ==
    [k \in 1 .. Cardinality({j \in 1 .. Len(x) :
                               IsLeftOfDiscontinuity(x[j], x_discontinuity)})
        |-> left]

\* np.where(x < self.x_discontinuity, left, right)
np_where(x, x_discontinuity, left, right) ==
    [k \in 1 .. Len(x) |->
        IF IsLeftOfDiscontinuity(x[k], x_discontinuity) THEN left ELSE right]

\* The t <= 0 branch: the three np.where statements.
InitialConditionStep(s, st) ==
    LET x  == st.h[st.f.x]
        r1 == NewArray(st, np_where(x, s.x_discontinuity, s.rho_L, s.rho_R))
        r2 == NewArray(r1, np_where(x, s.x_discontinuity, s.u_L, s.u_R))
        r3 == NewArray(r2, np_where(x, s.x_discontinuity, s.p_L, s.p_R))
    IN  [h |-> r3.h, a |-> r3.a, pool |-> st.pool,
         f |-> [st.f EXCEPT !.pc = "energy", !.density = r1.id,
                            !.velocity = r2.id, !.pressure = r3.id]]

\* The solve gone wrong: the star state of the instance as it was
\* constructed, kept and taken again whatever the attributes are now.
SolveRiemannStep_cached(s, st) ==
    LET r == solve_riemann(SodShockTube(GAMMA_DEFAULT))
    IN  [st EXCEPT !.f.pc = "waves",
                   !.f.star = [p_star |-> r.p_star, u_star |-> r.u_star,
                               rho_3 |-> r.rho_3, rho_4 |-> r.rho_4],
                   !.f.nsolve = @ + 1, !.f.ier = r.ier, !.f.nfev = r.nfev]

\* p_star, u_star, rho_3, rho_4 = self._solve_riemann()
SolveRiemannStep(s, st) ==
    LET r == solve_riemann(s)
    IN  [st EXCEPT !.f.pc = "waves",
                   !.f.star = [p_star |-> r.p_star, u_star |-> r.u_star,
                               rho_3 |-> r.rho_3, rho_4 |-> r.rho_4],
                   !.f.nsolve = @ + 1, !.f.ier = r.ier, !.f.nfev = r.nfev]

\* xi = (x - self.x_discontinuity) / t
Xi(x, x_discontinuity, t) ==
    [k \in 1 .. Len(x) |-> Div(Sub(x[k], x_discontinuity), t)]

\* The sound speeds, the four wave speeds and xi.
WaveSpeedsStep(s, st) ==
    LET r == xi_array(st, st.f.x,
                      Xi(st.h[st.f.x], s.x_discontinuity, st.f.t))
    IN  [h |-> r.h, a |-> r.a, pool |-> st.pool,
         f |-> [st.f EXCEPT !.pc = "alloc", !.w = WaveSpeeds(s, st.f.star),
                            !.nwaves = @ + 1, !.xi = r.id]]

\* density, velocity, pressure = np.zeros_like(x) (three statements)
AllocStep(s, st) ==
    LET r1 == zeros_like(st, st.f.x)
        r2 == zeros_like(r1, st.f.x)
        r3 == zeros_like(r2, st.f.x)
    IN  [h |-> r3.h, a |-> r3.a, pool |-> st.pool,
         f |-> [st.f EXCEPT !.pc = "region1", !.density = r1.id,
                            !.velocity = r2.id, !.pressure = r3.id]]

\* The five masks.
InRegion1(xi, w) == Lt(xi, w.head_speed)

\* mask2 gone wrong: open below, closed above.
InRegion2_flipped(xi, w) == Gt(xi, w.head_speed) /\ Le(xi, w.tail_speed)

InRegion2(xi, w) == Ge(xi, w.head_speed) /\ Lt(xi, w.tail_speed)

\* mask3 gone wrong: open at both ends.
InRegion3_open(xi, w) == Gt(xi, w.tail_speed) /\ Lt(xi, w.contact_speed)

InRegion3(xi, w) == Ge(xi, w.tail_speed) /\ Lt(xi, w.contact_speed)

InRegion4(xi, w) == Ge(xi, w.contact_speed) /\ Lt(xi, w.shock_speed)

InRegion5(xi, w) == Ge(xi, w.shock_speed)

InRegion(r, xi, w) ==
    CASE r = 1 -> InRegion1(xi, w)
      [] r = 2 -> InRegion2(xi, w)
      [] r = 3 -> InRegion3(xi, w)
      [] r = 4 -> InRegion4(xi, w)
      [] r = 5 -> InRegion5(xi, w)

Mask(r, xi, w) == [k \in 1 .. Len(xi) |-> InRegion(r, xi[k], w)]

\* density[mask] = d; velocity[mask] = v; pressure[mask] = p, in this order.
WriteRegion(st, r, next, mask, d, v, p) ==
    LET h1 == SetMasked(st.h, st.f.density, mask, d)
        h2 == SetMasked(h1, st.f.velocity, mask, v)
        h3 == SetMasked(h2, st.f.pressure, mask, p)
    IN  [st EXCEPT !.h = h3, !.f.pc = next, !.f.mask[r] = mask]

\* A region whose three fields are constants.
ConstantRegionStep(st, r, next, d, v, p) ==
    LET xi   == st.h[st.f.xi]
        mask == Mask(r, xi, st.f.w)
        n    == Len(xi)
    IN  WriteRegion(st, r, next, mask,
                    Broadcast(d, n), Broadcast(v, n), Broadcast(p, n))

Region1Step(s, st) ==
    ConstantRegionStep(st, 1, "region2", s.rho_L, s.u_L, s.p_L)

\* The fan's sound speed gone wrong: u_L + xi for u_L - xi.
CFan_sign(s, c_L, xi) ==
    Mul(Div(2 * Scale, Gp1(s)),
        Add(c_L, Mul(Div(Gm1(s), 2 * Scale), Add(s.u_L, xi))))

\* The fan's local sound speed and fields at one xi.
CFan(s, c_L, xi) ==
    Mul(Div(2 * Scale, Gp1(s)),
        Add(c_L, Mul(Div(Gm1(s), 2 * Scale), Sub(s.u_L, xi))))

\* The fan's density gone wrong: one value for the whole fan, the mean of
\* the left state and the star-left state.
FanDensity_constant(s, c_L, xi) ==
    Div(Add(s.rho_L, StarOf(solve_riemann(s)).rho_3), 2 * Scale)

FanDensity(s, c_L, xi) ==
    Mul(s.rho_L, Pow(Div(CFan(s, c_L, xi), c_L), ExpRho(s)))

FanVelocity(s, c_L, xi) ==
    Mul(Div(2 * Scale, Gp1(s)),
        Add(Add(Mul(Div(Gm1(s), 2 * Scale), s.u_L), c_L), xi))

FanPressure(s, c_L, xi) ==
    Mul(s.p_L, Pow(Div(CFan(s, c_L, xi), c_L), ExpP(s)))

\* mask2 and, if np.any(mask2), the fan formulas at the masked positions.
Region2Step(s, st) ==
    LET xi   == st.h[st.f.xi]
        mask == Mask(2, xi, st.f.w)
        c_L  == sound_speed(s, s.p_L, s.rho_L)
        at(F(_, _, _)) ==
            [k \in 1 .. Len(xi) |-> IF mask[k] THEN F(s, c_L, xi[k]) ELSE 0]
    IN  IF \E k \in 1 .. Len(xi) : mask[k]
        THEN WriteRegion(st, 2, "region3", mask,
                         at(FanDensity), at(FanVelocity), at(FanPressure))
        ELSE [st EXCEPT !.f.pc = "region3", !.f.mask[2] = mask]

Region3Step(s, st) ==
    ConstantRegionStep(st, 3, "region4",
                       st.f.star.rho_3, st.f.star.u_star, st.f.star.p_star)

\* Region 4 gone wrong: the star-left density on the right of the contact.
Region4Step_no_jump(s, st) ==
    ConstantRegionStep(st, 4, "region5",
                       st.f.star.rho_3, st.f.star.u_star, st.f.star.p_star)

Region4Step(s, st) ==
    ConstantRegionStep(st, 4, "region5",
                       st.f.star.rho_4, st.f.star.u_star, st.f.star.p_star)

\* Region 5 gone wrong: it writes only where no earlier mask matched.
Region5Step_first_wins(s, st) ==
    LET xi   == st.h[st.f.xi]
        mask == Mask(5, xi, st.f.w)
        n    == Len(xi)
        free == [k \in 1 .. n |->
                    mask[k] /\ \A r \in 1 .. 4 : ~st.f.mask[r][k]]
        st1  == WriteRegion(st, 5, "energy", free, Broadcast(s.rho_R, n),
                            Broadcast(s.u_R, n), Broadcast(s.p_R, n))
    IN  [st1 EXCEPT !.f.mask[5] = mask]

Region5Step(s, st) ==
    ConstantRegionStep(st, 5, "energy", s.rho_R, s.u_R, s.p_R)

\* The energy gone wrong: gamma for gamma - 1.
EnergyStep_gamma(s, st) ==
    LET d == st.h[st.f.density]
        p == st.h[st.f.pressure]
        r == NewArray(st, [k \in 1 .. Len(p) |->
                              Div(p[k], Mul(G(s), d[k]))])
    IN  [h |-> r.h, a |-> r.a, pool |-> st.pool,
         f |-> [st.f EXCEPT !.pc = "ret", !.energy = r.id]]

\* energy = pressure / ((self.gamma - 1) * density)
EnergyStep(s, st) ==
    LET d == st.h[st.f.density]
        p == st.h[st.f.pressure]
        r == NewArray(st, [k \in 1 .. Len(p) |->
                              Div(p[k], Mul(Gm1(s), d[k]))])
    IN  [h |-> r.h, a |-> r.a, pool |-> st.pool,
         f |-> [st.f EXCEPT !.pc = "ret", !.energy = r.id]]

\* return density, velocity, pressure, energy
Returned(h, f) ==
    [density |-> h[f.density], velocity |-> h[f.velocity],
     pressure |-> h[f.pressure], energy |-> h[f.energy]]

\* The whole call, run on its own on a heap that holds nothing but x.
RunAlone(s, x, t) ==
    LET st0 == [h |-> [id \in ArrIds |-> IF id = X_ANALYTIC THEN x ELSE <<>>],
                a |-> {X_ANALYTIC},
                pool |-> Arena(1),
                f |-> CallFrame(X_ANALYTIC, t)]
        st1 == IF TakesInitialBranch(t)
               THEN InitialConditionStep(s, st0)
               ELSE Region5Step(s,
                      Region4Step(s,
                        Region3Step(s,
                          Region2Step(s,
                            Region1Step(s,
                              AllocStep(s,
                                WaveSpeedsStep(s,
                                  SolveRiemannStep(s, st0))))))))
        st2 == EnergyStep(s, st1)
    IN  Returned(st2.h, st2.f)

---------------------------------------------------------------------------
(* Inputs                                                                  *)

\* gamma comes from the command line (--gamma, type=float, default 1.4) and
\* reaches __init__ unchecked: 7/5 and 5/3 stand for the valid values, 1/2
\* for 0 < gamma <= 1 and -1/2 for a negative one.
Gammas ==
    {GAMMA_DEFAULT, [n |-> 5, d |-> 3], [n |-> 1, d |-> 2],
     [n |-> 0 - 1, d |-> 2]}

\* Times of the frames: negative, zero, 0.15 and 1.
Times == {0 - Scale, 0, (15 * Scale) \div 100, Scale}

\* Positions: around the discontinuity and, for t = 1, just below and
\* exactly at each wave speed of the solver (xi = x - x_discontinuity).
SpeedSet(w) ==
    {w.head_speed, w.tail_speed, w.contact_speed, w.shock_speed} \ {NaN}

SpeedsOf(s) == SpeedSet(WaveSpeeds(s, solve_riemann(s)))

FiniteSpeeds(g) == SpeedsOf(SodShockTube(g))

Positions(g) ==
    {X_DISCONTINUITY + d : d \in {0 - 1, 0, 1}}
        \cup {X_DISCONTINUITY + v + d :
                  v \in FiniteSpeeds(g), d \in {0 - 1, 0}}

RECURSIVE Sorted(_)
Sorted(S) ==
    IF S = {} THEN <<>>
    ELSE LET m == CHOOSE v \in S : \A u \in S : v =< u
         IN  <<m>> \o Sorted(S \ {m})

\* The position arrays a behaviour may start with: every run of MaxLen
\* neighbours among the sorted positions, and the shorter arrays down to
\* the empty one.
Cut(all) ==
    {SubSeq(all, k, k + MaxLen - 1) : k \in 1 .. (Len(all) - MaxLen + 1)}
        \cup {SubSeq(all, 1, m) : m \in 0 .. (MaxLen - 1)}

InputArrays(g) == Cut(Sorted(Positions(g)))

---------------------------------------------------------------------------
(* The comparison of all methods: animate_all_methods_comparison.py        *)

\* The keys of result_dirs, in the order of the dictionary.
MethodNames == <<"baseline", "modern", "gsph">>

\* A directory holds at most MaxFiles snapshots, named 1, 2, ... (their
\* names sort in this order), and perhaps energy.dat.
MaxFiles == 3

ENERGY_DAT == 0

\* A scatter without points, and the outcome of indexing a list past its
\* end.
NoPoints == 0 - 1

IndexError == 0 - 2

\* sorted([f for f in Path(dir_path).glob("*.dat")
\*         if f.name != 'energy.dat'])
SphFiles(dir_path) == Sorted(dir_path \ {ENERGY_DAT})

\* available_methods: the methods with at least one file, in the order of
\* result_dirs, each with its sorted files.
AvailableMethods(result_dirs) ==
    SelectSeq([k \in DOMAIN result_dirs |->
                  [method |-> result_dirs[k].method,
                   files |-> SphFiles(result_dirs[k].dir_path)]],
              LAMBDA e : Len(e.files) > 0)

\* files[frame], frame counted from 0.
Index(files, frame) ==
    IF frame < Len(files) THEN files[frame + 1] ELSE IndexError

\* A method drawn without the test of its file count.
Draw_unguarded(files, frame, shown) == Index(files, frame)

\* What the scatter of one method shows after animate(frame), when it
\* showed the points shown before: the points of files[frame].
Draw(files, frame, shown) ==
    IF frame < Len(files) THEN Index(files, frame) ELSE shown

\* No call of create_multi_method_animation.
NoAnim ==
    [pc |-> "none", result_dirs |-> <<>>, available_methods |-> <<>>,
     n_frames |-> 0, frame |-> 0, t |-> NoPoints, scatters |-> <<>>]

---------------------------------------------------------------------------
(* State                                                                   *)

VARIABLES
    solver,   \* the SodShockTube instance: its attributes
    heap,     \* array id -> contents (<<>> when not allocated)
    alloc,    \* the ids of the live arrays
    frames,   \* thread -> the frame of its call of shock_tube_solution
    args,     \* thread -> the time the caller passed to its current call
    mem,      \* one earlier call, remembered: its time, what it returned
              \* and how often it solved and computed the wave speeds
    anim      \* create_multi_method_animation: its locals and what the
              \* scatters of the figure show

vars == <<solver, heap, alloc, frames, args, mem, anim>>

NoResult ==
    [density |-> <<>>, velocity |-> <<>>, pressure |-> <<>>, energy |-> <<>>]

NoMem ==
    [set |-> FALSE, t |-> 0, res |-> NoResult, nsolve |-> 0, nwaves |-> 0]

\* create_animation with gamma g and the positions x.
InitAt(g, x) ==
    /\ solver = SodShockTube(g)
    /\ heap = [id \in ArrIds |-> IF id = X_ANALYTIC THEN x ELSE <<>>]
    /\ alloc = {X_ANALYTIC}
    /\ frames = [i \in Threads |-> IdleFrame]
    /\ args = [i \in Threads |-> 0]
    /\ mem = NoMem
    /\ anim = NoAnim

Init == \E g \in Gammas : \E x \in InputArrays(g) : InitAt(g, x)

\* What a statement of thread i's call works on.
StateOf(i) ==
    [h |-> heap, a |-> alloc, pool |-> Arena(i), f |-> frames[i]]

\* A statement gone wrong: it keeps the star pressure on the instance, in
\* the place of the right pressure.
Apply_on_self(i, st) ==
    /\ heap' = st.h
    /\ alloc' = st.a
    /\ frames' = [frames EXCEPT ![i] = st.f]
    /\ solver' = [solver EXCEPT !.p_R = st.f.star.p_star]
    /\ UNCHANGED <<args, mem, anim>>

\* One statement of thread i's call has led to st.
Apply(i, st) ==
    /\ heap' = st.h
    /\ alloc' = st.a
    /\ frames' = [frames EXCEPT ![i] = st.f]
    /\ UNCHANGED <<solver, args, mem, anim>>

\* animate(frame): solver.shock_tube_solution(x_analytic, t)
Call(i) ==
    /\ frames[i].pc = "idle"
    /\ \E t \in Times :
        /\ frames' = [frames EXCEPT ![i] = CallFrame(X_ANALYTIC, t)]
        /\ args' = [args EXCEPT ![i] = t]
    /\ UNCHANGED <<solver, heap, alloc, mem, anim>>

InitialCondition(i) ==
    /\ frames[i].pc = "entry"
    /\ TakesInitialBranch(frames[i].t)
    /\ Apply(i, InitialConditionStep(solver, StateOf(i)))

SolveRiemann(i) ==
    /\ frames[i].pc = "entry"
    /\ ~TakesInitialBranch(frames[i].t)
    /\ Apply(i, SolveRiemannStep(solver, StateOf(i)))

ComputeWaveSpeeds(i) ==
    /\ frames[i].pc = "waves"
    /\ Apply(i, WaveSpeedsStep(solver, StateOf(i)))

AllocateFields(i) ==
    /\ frames[i].pc = "alloc"
    /\ Apply(i, AllocStep(solver, StateOf(i)))

Region1(i) ==
    /\ frames[i].pc = "region1"
    /\ Apply(i, Region1Step(solver, StateOf(i)))

Region2(i) ==
    /\ frames[i].pc = "region2"
    /\ Apply(i, Region2Step(solver, StateOf(i)))

Region3(i) ==
    /\ frames[i].pc = "region3"
    /\ Apply(i, Region3Step(solver, StateOf(i)))

Region4(i) ==
    /\ frames[i].pc = "region4"
    /\ Apply(i, Region4Step(solver, StateOf(i)))

Region5(i) ==
    /\ frames[i].pc = "region5"
    /\ Apply(i, Region5Step(solver, StateOf(i)))

Energy(i) ==
    /\ frames[i].pc = "energy"
    /\ Apply(i, EnergyStep(solver, StateOf(i)))

\* The arrays a returning call hands over or drops; the caller's own array
\* stays.
Dropped(f) ==
    {f.xi, f.density, f.velocity, f.pressure, f.energy}
        \ {UNBOUND, X_ANALYTIC}

\* The call returns; the caller draws the arrays and lets them go.
Return(i) ==
    /\ frames[i].pc = "ret"
    /\ heap' = [id \in ArrIds |->
                   IF id \in Dropped(frames[i]) THEN <<>> ELSE heap[id]]
    /\ alloc' = alloc \ Dropped(frames[i])
    /\ frames' = [frames EXCEPT ![i] = IdleFrame]
    /\ args' = [args EXCEPT ![i] = 0]
    /\ UNCHANGED <<solver, mem, anim>>

\* The same, and the call is the one remembered for later comparison.
ReturnAndRemember(i) ==
    /\ frames[i].pc = "ret"
    /\ ~mem.set
    /\ mem' = [set |-> TRUE, t |-> args[i],
               res |-> Returned(heap, frames[i]),
               nsolve |-> frames[i].nsolve, nwaves |-> frames[i].nwaves]
    /\ heap' = [id \in ArrIds |->
                   IF id \in Dropped(frames[i]) THEN <<>> ELSE heap[id]]
    /\ alloc' = alloc \ Dropped(frames[i])
    /\ frames' = [frames EXCEPT ![i] = IdleFrame]
    /\ args' = [args EXCEPT ![i] = 0]
    /\ UNCHANGED <<solver, anim>>

Statement(i) ==
    \/ InitialCondition(i)
    \/ SolveRiemann(i)
    \/ ComputeWaveSpeeds(i)
    \/ AllocateFields(i)
    \/ Region1(i)
    \/ Region2(i)
    \/ Region3(i)
    \/ Region4(i)
    \/ Region5(i)
    \/ Energy(i)

\* The animation: one thread calls the solver frame after frame.
MainThread == 1

Next ==
    \/ Call(MainThread)
    \/ Statement(MainThread)
    \/ Return(MainThread)
    \/ ReturnAndRemember(MainThread)

Spec == Init /\ [][Next]_vars

\* Several threads call the one solver instance at once.
\* The positions of the concurrent calls: the MaxLen neighbours that end
\* just left of the discontinuity (they lie in the fan and in the star
\* region, at different places for different times).
ConcArrays(g) ==
    {x \in InputArrays(g) :
        Len(x) = MaxLen /\ x[MaxLen] = X_DISCONTINUITY - 1}

InitConc == \E x \in ConcArrays(GAMMA_DEFAULT) : InitAt(GAMMA_DEFAULT, x)

\* The concurrent callers work on different frames: each has its own
\* positive time, besides the frame at t = 0.
ConcTimes(i) == {0, IF i % 2 = 1 THEN (15 * Scale) \div 100 ELSE Scale}

NextConc ==
    \E i \in Threads :
        \/ Call(i) /\ args'[i] \in ConcTimes(i)
        \/ Statement(i)
        \/ Return(i)

SpecConc == InitConc /\ [][NextConc]_vars

\* A caller that changes the initial condition between two calls.  The
\* attributes of a SodShockTube are plain instance attributes, so a caller
\* can assign them; no code of the repository does.
NewGammas == {GAMMA_DEFAULT, [n |-> 5, d |-> 3], [n |-> 2, d |-> 1]}

NewRightPressures == {P_R, 2 * P_R}

\* solver.gamma = g, while no call runs.
SetGamma(g) ==
    /\ \A i \in Threads : frames[i].pc = "idle"
    /\ solver.gamma # g
    /\ solver' = [solver EXCEPT !.gamma = g]
    /\ UNCHANGED <<heap, alloc, frames, args, mem, anim>>

\* solver.p_R = p, while no call runs.
SetRightPressure(p) ==
    /\ \A i \in Threads : frames[i].pc = "idle"
    /\ solver.p_R # p
    /\ solver' = [solver EXCEPT !.p_R = p]
    /\ UNCHANGED <<heap, alloc, frames, args, mem, anim>>

InitMut == \E x \in ConcArrays(GAMMA_DEFAULT) : InitAt(GAMMA_DEFAULT, x)

NextMut ==
    \/ Call(MainThread)
    \/ Statement(MainThread)
    \/ Return(MainThread)
    \/ ReturnAndRemember(MainThread)
    \/ \E g \in NewGammas : SetGamma(g)
    \/ \E p \in NewRightPressures : SetRightPressure(p)

SpecMut == InitMut /\ [][NextMut]_vars

\* The class of animate_2d.py, used by a caller that assigns gamma and
\* p_L between its calls.
NewLeftPressures == {P_L, P_R \div 2}

\* solver.p_L = p, while no call runs.
SetLeftPressure(p) ==
    /\ \A i \in Threads : frames[i].pc = "idle"
    /\ solver.p_L # p
    /\ solver' = [solver EXCEPT !.p_L = p]
    /\ UNCHANGED <<heap, alloc, frames, args, mem, anim>>

Init2d ==
    \E x \in ConcArrays(GAMMA_DEFAULT) :
        /\ solver = SodShockTube_2d(GAMMA_DEFAULT)
        /\ heap = [id \in ArrIds |-> IF id = X_ANALYTIC THEN x ELSE <<>>]
        /\ alloc = {X_ANALYTIC}
        /\ frames = [i \in Threads |-> IdleFrame]
        /\ args = [i \in Threads |-> 0]
        /\ mem = NoMem
        /\ anim = NoAnim

Next2d ==
    \/ Call(MainThread)
    \/ Statement(MainThread)
    \/ Return(MainThread)
    \/ ReturnAndRemember(MainThread)
    \/ \E g \in NewGammas : SetGamma(g)
    \/ \E p \in NewLeftPressures : SetLeftPressure(p)

Spec2d == Init2d /\ [][Next2d]_vars

\* create_multi_method_animation is called with the directories of the
\* methods; each holds some snapshots and perhaps energy.dat.
InitMulti ==
    \E x \in ConcArrays(GAMMA_DEFAULT) :
        \E d \in [DOMAIN MethodNames ->
                     {(1 .. n) \cup e : n \in 0 .. MaxFiles,
                                        e \in {{}, {ENERGY_DAT}}}] :
            /\ solver = SodShockTube(GAMMA_DEFAULT)
            /\ heap = [id \in ArrIds |-> IF id = X_ANALYTIC THEN x ELSE <<>>]
            /\ alloc = {X_ANALYTIC}
            /\ frames = [i \in Threads |-> IdleFrame]
            /\ args = [i \in Threads |-> 0]
            /\ mem = NoMem
            /\ anim = [NoAnim EXCEPT
                          !.pc = "start",
                          !.result_dirs =
                              [k \in DOMAIN MethodNames |->
                                  [method |-> MethodNames[k],
                                   dir_path |-> d[k]]]]

\* The body of create_multi_method_animation up to the construction of
\* the FuncAnimation: the methods are filtered; without any the function
\* returns; else the frame count is taken from the first one, its first
\* file is read for the domain, and the empty scatters are made.
CreateMultiMethodAnimation ==
    /\ anim.pc = "start"
    /\ LET available_methods == AvailableMethods(anim.result_dirs)
       IN  IF Len(available_methods) = 0
           THEN anim' = [anim EXCEPT !.pc = "returned"]
           ELSE LET files == available_methods[1].files
                IN  anim' = [anim EXCEPT
                        !.available_methods = available_methods,
                        !.n_frames = Len(files),
                        !.scatters =
                            [k \in DOMAIN available_methods |-> NoPoints],
                        !.pc = IF Index(files, 0) = IndexError
                               THEN "raised" ELSE "built"]
    /\ UNCHANGED <<solver, heap, alloc, frames, args, mem>>

\* init(): anim.save starts with the empty scatters.
init_func ==
    /\ anim.pc = "built"
    /\ anim' = [anim EXCEPT
                   !.scatters = [k \in DOMAIN anim.scatters |-> NoPoints],
                   !.t = NoPoints,
                   !.frame = 0,
                   !.pc = "drawing"]
    /\ UNCHANGED <<solver, heap, alloc, frames, args, mem>>

\* animate(frame), called by anim.save for frame = 0, ..., n_frames - 1:
\* the time is read from the first method's file, the analytical lines
\* are set (the solver keeps nothing of the call), and the methods are
\* drawn in turn.  An IndexError ends the call and the function; the
\* methods drawn before it keep their new points.
animate ==
    /\ anim.pc = "drawing"
    /\ anim.frame < anim.n_frames
    /\ LET available_methods == anim.available_methods
           t == Index(available_methods[1].files, anim.frame)
           drawn == [k \in DOMAIN available_methods |->
                        Draw(available_methods[k].files, anim.frame,
                             anim.scatters[k])]
           raised(k) ==
               \/ t = IndexError
               \/ \E j \in 1 .. k : drawn[j] = IndexError
       IN  anim' = [anim EXCEPT
                       !.t = IF t = IndexError THEN anim.t ELSE t,
                       !.scatters =
                           [k \in DOMAIN drawn |->
                               IF raised(k) THEN anim.scatters[k]
                               ELSE drawn[k]],
                       !.frame = anim.frame + 1,
                       !.pc = IF raised(Len(available_methods))
                              THEN "raised" ELSE "drawing"]
    /\ UNCHANGED <<solver, heap, alloc, frames, args, mem>>

\* anim.save has drawn every frame; the file is written.
Save ==
    /\ anim.pc = "drawing"
    /\ anim.frame = anim.n_frames
    /\ anim' = [anim EXCEPT !.pc = "saved"]
    /\ UNCHANGED <<solver, heap, alloc, frames, args, mem>>

NextMulti ==
    \/ CreateMultiMethodAnimation
    \/ init_func
    \/ animate
    \/ Save

SpecMulti == InitMulti /\ [][NextMulti]_vars

---------------------------------------------------------------------------
(* Properties                                                              *)

\* The standard Sod test case with the default gamma.
Canonical(s) == s = SodShockTube(GAMMA_DEFAULT)

\* What the specification calls a valid input.
ValidInput(s) ==
    /\ Gt(G(s), Scale)
    /\ s.rho_L > 0 /\ s.p_L > 0 /\ s.rho_R > 0 /\ s.p_R > 0

\* The caller's positions.
XNow == heap[X_ANALYTIC]

\* Thread i's call has applied its five masks.
Classified(i) == args[i] > 0 /\ frames[i].pc \in {"energy", "ret"}

RegionsOf(i, k) == {r \in Regions : frames[i].mask[r][k]}

XiOf(i) == heap[frames[i].xi]

\* C1: for t > 0 and the canonical Sod configuration every position lies in
\* exactly one of the five regions: the five masks are pairwise disjoint
\* and together cover every position.
C1_FiveRegionsPartition ==
    \A i \in Threads :
        (Canonical(solver) /\ Classified(i)) =>
            /\ \A r \in Regions : Len(frames[i].mask[r]) = Len(XNow)
            /\ \A k \in 1 .. Len(XNow) : Cardinality(RegionsOf(i, k)) = 1

C1_Witness ==
    \E i \in Threads :
        /\ Canonical(solver) /\ Classified(i) /\ frames[i].pc = "ret"
        /\ \E j, k \in 1 .. Len(XNow) :
            /\ RegionsOf(i, j) = {2}
            /\ RegionsOf(i, k) = {3}

\* C2: the regions are half-open: a position whose xi is exactly the head,
\* tail, contact or shock speed is in the region that starts at that speed
\* (2, 3, 4, 5) and in no other one.  Checked for the valid values of gamma.
C2_HalfOpenIntervals ==
    \A i \in Threads :
        (ValidInput(solver) /\ Classified(i)) =>
            \A k \in 1 .. Len(XiOf(i)) :
                /\ XiOf(i)[k] = frames[i].w.head_speed
                       => RegionsOf(i, k) = {2}
                /\ XiOf(i)[k] = frames[i].w.tail_speed
                       => RegionsOf(i, k) = {3}
                /\ XiOf(i)[k] = frames[i].w.contact_speed
                       => RegionsOf(i, k) = {4}
                /\ XiOf(i)[k] = frames[i].w.shock_speed
                       => RegionsOf(i, k) = {5}

C2_Witness ==
    \E i \in Threads :
        /\ ValidInput(solver) /\ Classified(i) /\ frames[i].pc = "ret"
        /\ \E j, k \in 1 .. Len(XiOf(i)) :
            /\ XiOf(i)[j] = frames[i].w.tail_speed - 1
            /\ RegionsOf(i, j) = {2}
            /\ XiOf(i)[k] = frames[i].w.tail_speed
            /\ RegionsOf(i, k) = {3}

\* The initial condition at one position.
InitialValue(x, left, right) ==
    IF x < solver.x_discontinuity THEN left ELSE right

\* C3: for every t <= 0 the call returns the initial condition: the left
\* state at every x < x_discontinuity and the right state at every other
\* x, a position exactly at x_discontinuity included.
C3_InitialConditionAtNonPositiveTime ==
    \A i \in Threads :
        (frames[i].pc = "ret" /\ args[i] =< 0) =>
            /\ Len(heap[frames[i].density]) = Len(XNow)
            /\ Len(heap[frames[i].velocity]) = Len(XNow)
            /\ Len(heap[frames[i].pressure]) = Len(XNow)
            /\ \A k \in 1 .. Len(XNow) :
                /\ heap[frames[i].density][k]
                       = InitialValue(XNow[k], solver.rho_L, solver.rho_R)
                /\ heap[frames[i].velocity][k]
                       = InitialValue(XNow[k], solver.u_L, solver.u_R)
                /\ heap[frames[i].pressure][k]
                       = InitialValue(XNow[k], solver.p_L, solver.p_R)

C3_Witness ==
    \E i \in Threads :
        /\ frames[i].pc = "ret" /\ args[i] < 0
        /\ \E j, k \in 1 .. Len(XNow) :
            /\ XNow[j] < solver.x_discontinuity
            /\ XNow[k] = solver.x_discontinuity
            /\ heap[frames[i].density][k] = solver.rho_R

\* C4: a call with t <= 0 never runs the star-state solve and computes no
\* wave speed; the solve runs on the t > 0 path only.
C4_NoSolveAtNonPositiveTime ==
    \A i \in Threads :
        /\ args[i] =< 0 => (frames[i].nsolve = 0 /\ frames[i].nwaves = 0)
        /\ frames[i].nsolve > 0 => args[i] > 0

C4_Witness ==
    \E i \in Threads :
        /\ frames[i].pc = "ret" /\ args[i] = 0
        /\ frames[i].nsolve = 0 /\ frames[i].nwaves = 0

\* C5: whatever t is, each of the four returned arrays is as long as the
\* position array.
C5_OutputLengths ==
    \A i \in Threads :
        frames[i].pc = "ret" =>
            /\ Len(Returned(heap, frames[i]).density) = Len(XNow)
            /\ Len(Returned(heap, frames[i]).velocity) = Len(XNow)
            /\ Len(Returned(heap, frames[i]).pressure) = Len(XNow)
            /\ Len(Returned(heap, frames[i]).energy) = Len(XNow)

C5_Witness ==
    \E i \in Threads :
        /\ frames[i].pc = "ret" /\ args[i] =< 0
        /\ Len(XNow) = MaxLen
        /\ Len(Returned(heap, frames[i]).energy) = MaxLen
        /\ \E k \in 1 .. Len(XNow) : XNow[k] >= solver.x_discontinuity

\* C6: a call with the positions and the time of an earlier call on the
\* same instance returns the arrays the earlier call returned, whatever
\* calls came in between.
C6_Idempotent ==
    \A i \in Threads :
        (frames[i].pc = "ret" /\ mem.set /\ mem.t = args[i]) =>
            Returned(heap, frames[i]) = mem.res

C6_Witness ==
    \E i \in Threads :
        /\ frames[i].pc = "ret" /\ mem.set /\ mem.t = args[i]
        /\ args[i] > 0 /\ Len(XNow) = MaxLen
        /\ Returned(heap, frames[i]) = mem.res

\* A live array whose contents a step changes belongs to a running call.
OwnedByACall(id) == \E i \in Threads : id \in Dropped(frames[i])

\* C7: no step of a call changes an attribute of the instance or the
\* caller's position array; a call writes to arrays of its own only.
C7_NoSideEffects ==
    [][/\ solver' = solver
       /\ heap'[X_ANALYTIC] = heap[X_ANALYTIC]
       /\ \A id \in alloc :
              heap'[id] # heap[id] => OwnedByACall(id)]_vars

C7_Witness ==
    \E i \in Threads :
        /\ frames[i].pc = "ret" /\ args[i] > 0
        /\ \E k \in 1 .. Len(XNow) : heap[frames[i].density][k] # 0
        /\ XNow # <<>>

\* C8: calls that run at once on the one instance, for any times, each
\* return what the call returns when it runs alone.
C8_ConcurrentCallsAsAlone ==
    \A i \in Threads :
        frames[i].pc = "ret" =>
            Returned(heap, frames[i]) = RunAlone(solver, XNow, args[i])

C8_Witness ==
    \E i, j \in Threads :
        /\ i # j
        /\ frames[i].pc = "ret" /\ frames[j].pc = "ret"
        /\ args[i] > 0 /\ args[j] > 0 /\ args[i] # args[j]

\* A call that has run the root finder or that returns arrays.
SolvedOrReturned(i) == frames[i].nsolve > 0 \/ frames[i].pc = "ret"

\* C9: with a non-positive density or pressure, or gamma <= 1, the solver
\* fails before any root-finding attempt and returns no arrays.
C9_InvalidInputRejected ==
    \A i \in Threads : ~ValidInput(solver) => ~SolvedOrReturned(i)

\* The call goes on with the iterate fsolve gave.
UsesIterate(i) ==
    frames[i].pc \in {"waves", "alloc", "region1", "region2", "region3",
                      "region4", "region5", "energy", "ret"}

Ordered(w) ==
    /\ Le(w.head_speed, w.tail_speed)
    /\ Le(w.tail_speed, w.contact_speed)
    /\ Le(w.contact_speed, w.shock_speed)

\* Thread i's call has computed its wave speeds and its first mask.
HasClassified(i) ==
    /\ frames[i].nwaves > 0
    /\ frames[i].pc \in {"region2", "region3", "region4", "region5",
                         "energy", "ret"}

\* C11: the order of the four wave speeds is checked before any position
\* is classified: no call classifies positions with speeds out of order.
C11_OrderCheckedBeforeClassifying ==
    \A i \in Threads : HasClassified(i) => Ordered(frames[i].w)

\* No element of the array is nan.
NoNaN(arr) == \A k \in 1 .. Len(arr) : ~IsNaN(arr[k])

\* The arrays thread i's call returns are fully populated: on the t > 0
\* path every position was written through one of the five masks, and no
\* element of the four arrays is nan.
FullyPopulated(i) ==
    /\ frames[i].nwaves > 0 =>
           \A k \in 1 .. Len(XNow) : RegionsOf(i, k) # {}
    /\ NoNaN(Returned(heap, frames[i]).density)
    /\ NoNaN(Returned(heap, frames[i]).velocity)
    /\ NoNaN(Returned(heap, frames[i]).pressure)
    /\ NoNaN(Returned(heap, frames[i]).energy)

\* C12: there is no partial result: a call that returns arrays returns
\* them fully populated, with no unwritten and no nan element.
C12_NoPartialResult ==
    \A i \in Threads : frames[i].pc = "ret" => FullyPopulated(i)

\* C13: over the calls on one instance the star-state solve and the
\* wave-speed computation are performed once: after a call that solved, no
\* later call runs the root finder or computes the wave speeds again.
C13_SolvedOnce ==
    \A i \in Threads :
        (mem.set /\ mem.nsolve > 0) =>
            (frames[i].nsolve = 0 /\ frames[i].nwaves = 0)

\* C14: after a change of gamma or of a left/right state value, a call
\* with t > 0 takes the star state and the wave speeds of the values the
\* instance has now, and returns what these values give.
C14_RecomputedAfterChange ==
    \A i \in Threads :
        /\ frames[i].pc = "waves" =>
               frames[i].star = StarOf(solve_riemann(solver))
        /\ frames[i].pc = "alloc" =>
               frames[i].w = WaveSpeeds(solver, frames[i].star)
        /\ (frames[i].pc = "ret" /\ args[i] > 0) =>
               Returned(heap, frames[i]) = RunAlone(solver, XNow, args[i])

C14_Witness ==
    \E i \in Threads :
        /\ solver.gamma # GAMMA_DEFAULT /\ solver.p_R # P_R
        /\ mem.set /\ mem.nsolve > 0
        /\ frames[i].pc = "ret" /\ args[i] = mem.t
        /\ Returned(heap, frames[i]) # mem.res

C16_WaveSpeedsOrdered ==
    \A i \in Threads :
        (/\ ValidInput(solver)
         /\ Gt(solver.rho_L, solver.rho_R) /\ Gt(solver.p_L, solver.p_R)
         /\ solver.u_L = solver.u_R
         /\ frames[i].nwaves > 0) => Ordered(frames[i].w)

C16_Witness ==
    \E i \in Threads :
        /\ ValidInput(solver) /\ frames[i].nwaves > 0
        /\ solver.gamma # GAMMA_DEFAULT /\ solver.p_R # P_R
        /\ Lt(frames[i].w.head_speed, frames[i].w.tail_speed)
        /\ Lt(frames[i].w.tail_speed, frames[i].w.contact_speed)
        /\ Lt(frames[i].w.contact_speed, frames[i].w.shock_speed)

\* C17: for a valid input with rho_L > rho_R and p_L > p_R the solved
\* p_star lies strictly between p_R and p_L, and F(p_star) =
\* f_L(p_star) + f_R(p_star) + (u_R - u_L) is below the solver tolerance
\* in absolute value.
C17_StarPressureSolves ==
    \A i \in Threads :
        (/\ ValidInput(solver)
         /\ Gt(solver.rho_L, solver.rho_R) /\ Gt(solver.p_L, solver.p_R)
         /\ frames[i].pc = "waves") =>
            /\ Lt(solver.p_R, frames[i].star.p_star)
            /\ Lt(frames[i].star.p_star, solver.p_L)
            /\ Lt(Abs(equations(solver, frames[i].star.p_star)), XTol)

C17_Witness ==
    \E i \in Threads :
        /\ ValidInput(solver) /\ frames[i].pc = "waves"
        /\ solver.gamma # GAMMA_DEFAULT /\ solver.p_R # P_R
        /\ frames[i].ier = IER_CONVERGED /\ frames[i].nfev > 2
        /\ equations(solver, InitialGuess(solver)) > XTol

\* C18: for the canonical Sod case the solver yields p_star = 0.30313 and
\* u_star = 0.92745 to five digits, and at t = 0.15 the position x = 0.5
\* (xi = 0) is in the star-left region and gets the density rho_3, which is
\* neither rho_L nor rho_R.
C18_ReferenceValues ==
    LET digit == Scale \div 10^5
        Rounded(v) == (v + digit \div 2) \div digit
    IN  \A i \in Threads :
            (Canonical(solver) /\ Classified(i)) =>
                /\ Rounded(frames[i].star.p_star) = 30313
                /\ Rounded(frames[i].star.u_star) = 92745
                /\ args[i] = (15 * Scale) \div 100 =>
                       \A k \in 1 .. Len(XNow) :
                           XNow[k] = X_DISCONTINUITY =>
                               /\ XiOf(i)[k] = 0
                               /\ RegionsOf(i, k) = {3}
                               /\ heap[frames[i].density][k]
                                      = frames[i].star.rho_3
                               /\ frames[i].star.rho_3 # solver.rho_L
                               /\ frames[i].star.rho_3 # solver.rho_R

C18_Witness ==
    \E i \in Threads :
        /\ Canonical(solver) /\ frames[i].pc = "ret"
        /\ args[i] = (15 * Scale) \div 100
        /\ frames[i].ier = IER_CONVERGED
        /\ \E k \in 1 .. Len(XNow) :
               XNow[k] = X_DISCONTINUITY /\ RegionsOf(i, k) = {3}

\* C19: in the returned arrays every position of the star-left region and
\* every position of the star-right region has the velocity u_star and the
\* pressure p_star; the density is rho_3 on the star-left side and rho_4
\* on the star-right side, and the two differ for the canonical case.
\* Checked for the valid values of gamma.
C19_ContactDiscontinuity ==
    \A i \in Threads :
        (ValidInput(solver) /\ frames[i].pc = "ret" /\ args[i] > 0) =>
            /\ \A k \in 1 .. Len(XNow) :
                   /\ RegionsOf(i, k) \cap {3, 4} # {} =>
                          /\ heap[frames[i].velocity][k]
                                 = frames[i].star.u_star
                          /\ heap[frames[i].pressure][k]
                                 = frames[i].star.p_star
                   /\ 3 \in RegionsOf(i, k) =>
                          heap[frames[i].density][k] = frames[i].star.rho_3
                   /\ 4 \in RegionsOf(i, k) =>
                          heap[frames[i].density][k] = frames[i].star.rho_4
            /\ Canonical(solver) =>
                   frames[i].star.rho_3 # frames[i].star.rho_4

C19_Witness ==
    \E i \in Threads :
        /\ Canonical(solver) /\ frames[i].pc = "ret" /\ args[i] > 0
        /\ \E j, k \in 1 .. Len(XNow) :
               /\ RegionsOf(i, j) = {3}
               /\ RegionsOf(i, k) = {4}
               /\ XiOf(i)[k] = frames[i].w.contact_speed
               /\ heap[frames[i].density][j] # heap[frames[i].density][k]
               /\ heap[frames[i].velocity][j] = heap[frames[i].velocity][k]
               /\ heap[frames[i].pressure][j] = heap[frames[i].pressure][k]

\* The fan formulas of lines 92-99 at one xi.
Fan(s, xi) ==
    LET c_L == sound_speed(s, s.p_L, s.rho_L)
    IN  [density  |-> FanDensity(s, c_L, xi),
         velocity |-> FanVelocity(s, c_L, xi),
         pressure |-> FanPressure(s, c_L, xi)]

\* The fields a and b differ by at most tol in density, velocity, pressure.
Near(a, b, tol) ==
    /\ Le(Abs(Sub(a.density, b.density)), tol)
    /\ Le(Abs(Sub(a.velocity, b.velocity)), tol)
    /\ Le(Abs(Sub(a.pressure, b.pressure)), tol)

\* The fan at the head against the left state and at the tail against the
\* star-left state, when the left wave is a rarefaction.
FanJoins(i, tol) ==
    (frames[i].nwaves > 0 /\ Le(frames[i].star.p_star, solver.p_L)) =>
        /\ Near(Fan(solver, frames[i].w.head_speed),
                [density |-> solver.rho_L, velocity |-> solver.u_L,
                 pressure |-> solver.p_L], tol)
        /\ Near(Fan(solver, frames[i].w.tail_speed),
                [density |-> frames[i].star.rho_3,
                 velocity |-> frames[i].star.u_star,
                 pressure |-> frames[i].star.p_star], tol)

C21_EnergyOfFinalFields ==
    \A i \in Threads :
        frames[i].pc = "ret" =>
            \A k \in 1 .. Len(XNow) :
                /\ heap[frames[i].energy][k]
                       = Div(heap[frames[i].pressure][k],
                             Mul(Sub(G(solver), Scale),
                                 heap[frames[i].density][k]))
                /\ Canonical(solver) =>
                       /\ Gt(heap[frames[i].density][k], 0)
                       /\ Gt(heap[frames[i].energy][k], 0)

C21_Witness ==
    \E i \in Threads :
        /\ Canonical(solver) /\ frames[i].pc = "ret" /\ args[i] > 0
        /\ Len(XNow) = MaxLen
        /\ \E j, k \in 1 .. Len(XNow) :
               /\ RegionsOf(i, j) = {2} /\ RegionsOf(i, k) = {3}
               /\ Gt(heap[frames[i].energy][j], 0)
               /\ heap[frames[i].energy][j] # heap[frames[i].energy][k]

\* C22: at every pressure p, F(p) = f_L(p) + f_R(p) + (u_R - u_L), where
\* f_side(p) is the shock branch exactly when p > p_side and the
\* rarefaction branch otherwise, p = p_side included, and both branches
\* are 0 at p = p_side.  Checked for the valid values of gamma at p_L, p_R,
\* their neighbours, the starting point of the solve and each call's
\* p_star.
C22_WaveFunctionBranches ==
    LET s == solver
        c_L == sound_speed(s, s.p_L, s.rho_L)
        c_R == sound_speed(s, s.p_R, s.rho_R)
        f_L(p) == IF p > s.p_L THEN ShockBranch(s, p, s.p_L, s.rho_L)
                  ELSE RarefactionBranch(s, p, s.p_L, c_L)
        f_R(p) == IF p > s.p_R THEN ShockBranch(s, p, s.p_R, s.rho_R)
                  ELSE RarefactionBranch(s, p, s.p_R, c_R)
        probes == {s.p_L - 1, s.p_L, s.p_L + 1, s.p_R - 1, s.p_R, s.p_R + 1,
                   InitialGuess(s)}
                      \cup {frames[i].star.p_star : i \in Threads}
    IN  ValidInput(s) =>
            /\ \A p \in {q \in probes : q > 0} :
                   equations(s, p)
                       = Add(Add(f_L(p), f_R(p)), Sub(s.u_R, s.u_L))
            /\ ShockBranch(s, s.p_L, s.p_L, s.rho_L) = 0
            /\ RarefactionBranch(s, s.p_L, s.p_L, c_L) = 0
            /\ ShockBranch(s, s.p_R, s.p_R, s.rho_R) = 0
            /\ RarefactionBranch(s, s.p_R, s.p_R, c_R) = 0

C22_Witness ==
    \E i \in Threads :
        /\ ValidInput(solver) /\ frames[i].pc = "waves"
        /\ Lt(solver.p_R, frames[i].star.p_star)
        /\ Lt(frames[i].star.p_star, solver.p_L)
        /\ Gt(ShockBranch(solver, frames[i].star.p_star,
                          solver.p_R, solver.rho_R), 0)
        /\ Lt(RarefactionBranch(solver, frames[i].star.p_star, solver.p_L,
                                sound_speed(solver, solver.p_L, solver.rho_L)),
              0)

\* The pressures at which F is compared: 0.05, 0.10, ... 1.50.
Pressures == {(k * Scale) \div 20 : k \in 1 .. 30}

\* C23: for a valid input F is strictly increasing in p over p > 0 (from
\* each pressure of the grid to the next), so F(p) = 0 has at most one
\* root, and the p_star returned is that root: F is negative at every
\* pressure below it and positive at every pressure above it.
C23_StrictlyIncreasing ==
    \A i \in Threads :
        (ValidInput(solver) /\ frames[i].pc = "waves") =>
            /\ \A p \in Pressures :
                   LET q == p + Scale \div 20
                   IN  q \in Pressures =>
                           Lt(equations(solver, p), equations(solver, q))
            /\ \A p \in Pressures :
                   /\ p < frames[i].star.p_star - XTol =>
                          Lt(equations(solver, p), 0)
                   /\ p > frames[i].star.p_star + XTol =>
                          Gt(equations(solver, p), 0)

C23_Witness ==
    \E i \in Threads :
        /\ ValidInput(solver) /\ frames[i].pc = "waves"
        /\ solver.gamma # GAMMA_DEFAULT /\ solver.p_R # P_R
        /\ \E p, q \in Pressures :
               /\ p < solver.p_R /\ q > solver.p_L
               /\ Lt(equations(solver, p), 0)
               /\ Gt(equations(solver, q), 0)
               /\ Lt(p, frames[i].star.p_star)
               /\ Lt(frames[i].star.p_star, q)

\* C24: u_star = u_L - f_L(p_star), with f_L on the branch the root finder
\* used for the left wave: the shock branch when p_star > p_L and the
\* rarefaction branch otherwise.
C24_StarVelocityOnSolvedBranch ==
    \A i \in Threads :
        frames[i].pc = "waves" =>
            frames[i].star.u_star
                = Sub(solver.u_L,
                      WaveFunction(solver, frames[i].star.p_star,
                                   solver.p_L, solver.rho_L))

\* C25: rho_3 is the Rankine-Hugoniot density of the left state when
\* p_star > p_L and the isentropic density rho_L * (p_star / p_L)^(1/gamma)
\* otherwise; rho_4 is the Rankine-Hugoniot density of the right state
\* whatever the relation of p_star to p_R (up to the rounding that the
\* order of its multiplications and divisions leaves).
C25_StarDensities ==
    \A i \in Threads :
        frames[i].pc = "waves" =>
            /\ frames[i].star.rho_3
                   = IF Gt(frames[i].star.p_star, solver.p_L)
                     THEN RankineHugoniotDensity(solver,
                              frames[i].star.p_star, solver.p_L, solver.rho_L)
                     ELSE IsentropicDensity(solver,
                              frames[i].star.p_star, solver.p_L, solver.rho_L)
            /\ LET rh == RankineHugoniotDensity(solver,
                              frames[i].star.p_star,
                              solver.p_R, solver.rho_R)
               IN  \/ frames[i].star.rho_4 = rh
                   \/ Le(Abs(Sub(frames[i].star.rho_4, rh)), XTol)

\* C26: the two classes SodShockTube are the same component: for every
\* left/right state, gamma, positions and t, an instance of the class of
\* animate_2d.py returns the star state and the four arrays that an
\* instance of the class of shock_tube_animation_utils.py with the same
\* attributes returns (up to rounding in the last digits), inputs with
\* p_star > p_L included.
C26_CopiesAgree ==
    LET other == [solver EXCEPT !.module = "shock_tube_animation_utils"]
        close(a, b) == Le(Abs(Sub(a, b)), XTol)
        same(a, b) ==
            /\ Len(a) = Len(b)
            /\ \A k \in 1 .. Len(a) : close(a[k], b[k])
    IN  \A i \in Threads :
            (frames[i].pc = "ret" /\ args[i] > 0) =>
                LET star == solve_riemann(other)
                    mine == Returned(heap, frames[i])
                    ref  == RunAlone(other, XNow, args[i])
                IN  /\ close(frames[i].star.p_star, star.p_star)
                    /\ close(frames[i].star.u_star, star.u_star)
                    /\ close(frames[i].star.rho_3, star.rho_3)
                    /\ close(frames[i].star.rho_4, star.rho_4)
                    /\ same(mine.density, ref.density)
                    /\ same(mine.velocity, ref.velocity)
                    /\ same(mine.pressure, ref.pressure)
                    /\ same(mine.energy, ref.energy)

\* C27 as stated: in the returned arrays the fields of the fan follow each
\* position's own xi: of two fan positions the one with the smaller xi has
\* the strictly greater density and pressure and the strictly smaller
\* velocity.
C27_FanStrictlyMonotone ==
    \A i \in Threads :
        (frames[i].pc = "ret" /\ args[i] > 0) =>
            \A j, k \in 1 .. Len(XNow) :
                (/\ RegionsOf(i, j) = {2} /\ RegionsOf(i, k) = {2}
                 /\ XiOf(i)[j] < XiOf(i)[k]) =>
                    /\ Gt(heap[frames[i].density][j],
                          heap[frames[i].density][k])
                    /\ Gt(heap[frames[i].pressure][j],
                          heap[frames[i].pressure][k])
                    /\ Lt(heap[frames[i].velocity][j],
                          heap[frames[i].velocity][k])

\* C27, amended: of two fan positions the one with the smaller xi has a
\* density and a pressure that are not smaller and a velocity that is not
\* greater, and strictly so when the two xi are further apart than the
\* rounding of the arithmetic (a thousandth here).
C27_FanMonotone ==
    \A i \in Threads :
        (frames[i].pc = "ret" /\ args[i] > 0) =>
            \A j, k \in 1 .. Len(XNow) :
                (/\ RegionsOf(i, j) = {2} /\ RegionsOf(i, k) = {2}
                 /\ XiOf(i)[j] < XiOf(i)[k]) =>
                    /\ Ge(heap[frames[i].density][j],
                          heap[frames[i].density][k])
                    /\ Ge(heap[frames[i].pressure][j],
                          heap[frames[i].pressure][k])
                    /\ Le(heap[frames[i].velocity][j],
                          heap[frames[i].velocity][k])
                    /\ XiOf(i)[k] - XiOf(i)[j] > Scale \div 10^3 =>
                           /\ Gt(heap[frames[i].density][j],
                                 heap[frames[i].density][k])
                           /\ Gt(heap[frames[i].pressure][j],
                                 heap[frames[i].pressure][k])
                           /\ Lt(heap[frames[i].velocity][j],
                                 heap[frames[i].velocity][k])

C27_Witness ==
    \E i \in Threads :
        /\ frames[i].pc = "ret" /\ args[i] > 0 /\ ValidInput(solver)
        /\ \E j, k \in 1 .. Len(XNow) :
               /\ RegionsOf(i, j) = {2} /\ RegionsOf(i, k) = {2}
               /\ XiOf(i)[j] = frames[i].w.head_speed
               /\ XiOf(i)[k] - XiOf(i)[j] > Scale \div 10^3
               /\ Gt(heap[frames[i].density][j], heap[frames[i].density][k])

\* C28: for t > 0 and four finite wave speeds in any order, every xi is in
\* at least one of the five masks, so every output element is written;
\* where several masks match a position, the values it has at the return
\* are those of the highest-numbered matching region.  The first part is
\* checked for the speeds of each call in each of their 24 orders.
C28_EveryPositionWritten ==
    \A i \in Threads :
        (Classified(i) /\ frames[i].pc = "ret"
             /\ ~IsNaN(frames[i].w.head_speed)
             /\ ~IsNaN(frames[i].w.shock_speed)) =>
            LET w    == frames[i].w
                c_L  == sound_speed(solver, solver.p_L, solver.rho_L)
                v    == <<w.head_speed, w.tail_speed,
                          w.contact_speed, w.shock_speed>>
                orders == {f \in [1 .. 4 -> 1 .. 4] :
                              \A a, b \in 1 .. 4 : f[a] = f[b] => a = b}
                in(f) == [head_speed |-> v[f[1]], tail_speed |-> v[f[2]],
                          contact_speed |-> v[f[3]],
                          shock_speed |-> v[f[4]]]
                last(k) == CHOOSE r \in RegionsOf(i, k) :
                               \A q \in RegionsOf(i, k) : q =< r
                rho(r, xi) == CASE r = 1 -> solver.rho_L
                                [] r = 2 -> FanDensity(solver, c_L, xi)
                                [] r = 3 -> frames[i].star.rho_3
                                [] r = 4 -> frames[i].star.rho_4
                                [] r = 5 -> solver.rho_R
                pr(r, xi) == CASE r = 1 -> solver.p_L
                               [] r = 2 -> FanPressure(solver, c_L, xi)
                               [] r \in {3, 4} -> frames[i].star.p_star
                               [] r = 5 -> solver.p_R
                vel(r, xi) == CASE r = 1 -> solver.u_L
                                [] r = 2 -> FanVelocity(solver, c_L, xi)
                                [] r \in {3, 4} -> frames[i].star.u_star
                                [] r = 5 -> solver.u_R
            IN  /\ \A f \in orders :
                       \A xi \in {XiOf(i)[k] : k \in 1 .. Len(XNow)}
                                  \cup {v[a] : a \in 1 .. 4}
                                  \cup {v[a] - 1 : a \in 1 .. 4} :
                           \E r \in Regions : InRegion(r, xi, in(f))
                /\ \A k \in 1 .. Len(XNow) :
                       /\ RegionsOf(i, k) # {}
                       /\ heap[frames[i].density][k]
                              = rho(last(k), XiOf(i)[k])
                       /\ heap[frames[i].velocity][k]
                              = vel(last(k), XiOf(i)[k])
                       /\ heap[frames[i].pressure][k]
                              = pr(last(k), XiOf(i)[k])

C28_Witness ==
    \E i \in Threads :
        /\ Classified(i) /\ frames[i].pc = "ret"
        /\ ~IsNaN(frames[i].w.head_speed)
        /\ Gt(frames[i].w.contact_speed, frames[i].w.shock_speed)
        /\ \E k \in 1 .. Len(XNow) :
               /\ RegionsOf(i, k) = {3, 5}
               /\ heap[frames[i].density][k] = solver.rho_R

\* C29: in the multi-method animation the methods whose directory has no
\* data file are excluded; if none remains the function returns without
\* an animation; otherwise the frame count is the file count of the first
\* available method, no file list is indexed out of range for any frame
\* below that count, and a method with fewer files is skipped for the
\* frame and keeps the points of the last frame it was drawn for.
C29_NoFileIndexedOutOfRange ==
    LET dirs == anim.result_dirs
        Data(k) == dirs[k].dir_path \ {ENERGY_DAT}
        with == {k \in DOMAIN dirs : Data(k) # {}}
        first == CHOOSE k \in with : \A j \in with : k =< j
        av == anim.available_methods
        Place(j) == CHOOSE k \in with : dirs[k].method = av[j].method
    IN  /\ anim.pc # "raised"
        /\ anim.pc = "returned" =>
               /\ with = {}
               /\ av = <<>> /\ anim.scatters = <<>> /\ anim.frame = 0
        /\ anim.pc \in {"built", "drawing", "saved"} =>
               /\ with # {}
               /\ Len(av) = Cardinality(with)
               /\ {av[j].method : j \in DOMAIN av}
                      = {dirs[k].method : k \in with}
               /\ \A i, j \in DOMAIN av : i < j => Place(i) < Place(j)
               /\ anim.n_frames = Cardinality(Data(first))
               /\ anim.frame =< anim.n_frames
               /\ anim.pc = "saved" => anim.frame = anim.n_frames
               /\ \A j \in DOMAIN av :
                      LET c == Cardinality(Data(Place(j)))
                      IN  /\ {av[j].files[i] : i \in 1 .. Len(av[j].files)}
                                 = Data(Place(j))
                          /\ anim.scatters[j] =
                                 IF anim.pc = "built" \/ anim.frame = 0
                                 THEN NoPoints
                                 ELSE IF anim.frame =< c THEN anim.frame
                                 ELSE c

\* A frame has been drawn for which one method had no file left: it shows
\* its last file, the first method the file of the frame.
C29_Witness ==
    /\ anim.pc = "drawing"
    /\ \E j \in DOMAIN anim.available_methods :
           LET files == anim.available_methods[j].files
           IN  /\ anim.frame > Len(files)
               /\ anim.scatters[j] = files[Len(files)]
               /\ anim.scatters[1] = anim.frame
               /\ anim.scatters[1] # anim.scatters[j]

====
